---- MODULE Spec2Model ----
(***************************************************************************)
(* Antijection.execute (src/nodes/Antijection/Antijection.node.ts): the    *)
(* per-item loop that reads the node parameters, validates the prompt,     *)
(* builds the detection request, awaits the HTTP call and maps the         *)
(* response or the caught error to an output item.                         *)
(*                                                                         *)
(* User text (prompt, blockedKeywords) is a sequence of runs [ch, n]: n    *)
(* copies of the UTF-16 code unit ch.  Messages are plain strings.         *)
(* An optional value (a `?` field, undefined) is a sequence of length 0    *)
(* or 1.                                                                   *)
(***************************************************************************)
EXTENDS Integers, Sequences, FiniteSets, TLC

VARIABLES pc, i, n, cont, returnData, inflight, params, caught, classified,
          thrown, result, reqLog, outcome, reads

vars == <<pc, i, n, cont, returnData, inflight, params, caught, classified,
          thrown, result, reqLog, outcome, reads>>

\* ------------------------------------------------------------------ bounds
MaxItems == 3
MaxRuns == 2
MaxKwLen == 5

\* ------------------------------------------------------- program constants
MaxPromptLength == 10000

\* ------------------------------------------------------- optional values
None == <<>>
Some(v) == <<v>>

\* a || b on optional numbers: 0 and undefined are falsy
OrNum(a, b) == IF a # None /\ a[1] # 0 THEN a ELSE b
\* a || b on optional message strings: "" and undefined are falsy
OrStr(a, b) == IF a # None /\ a[1] # "" THEN a ELSE b
\* a || b on optional objects: only undefined is falsy
OrObj(a, b) == IF a # None THEN a ELSE b

\* ------------------------------------------------------------- user text
WhiteSpace == {" ", "\t", "\n"}

Run(c, k) == [ch |-> c, n |-> k]

\* String.prototype.length
RECURSIVE Length(_)
Length(s) == IF s = <<>> THEN 0 ELSE Head(s).n + Length(Tail(s))

RECURSIVE TrimStart(_)
TrimStart(s) ==
    IF s = <<>> THEN <<>>
    ELSE IF Head(s).ch \in WhiteSpace THEN TrimStart(Tail(s)) ELSE s

RECURSIVE TrimEnd(_)
TrimEnd(s) ==
    IF s = <<>> THEN <<>>
    ELSE IF s[Len(s)].ch \in WhiteSpace THEN TrimEnd(SubSeq(s, 1, Len(s) - 1)) ELSE s

\* String.prototype.trim
Trim(s) == TrimEnd(TrimStart(s))

\* String.prototype.split('\n'): the lines between the separators
RECURSIVE Split(_)
Split(s) ==
    IF s = <<>> THEN << <<>> >>
    ELSE LET h == Head(s) IN
         IF h.ch = "\n"
         THEN LET rest == IF h.n = 1 THEN Tail(s)
                          ELSE <<Run("\n", h.n - 1)>> \o Tail(s)
              IN  << <<>> >> \o Split(rest)
         ELSE LET r == Split(Tail(s)) IN << <<h>> \o Head(r) >> \o Tail(r)

\* Array.prototype.map(s => s.trim())
MapTrim(lines) == [k \in 1..Len(lines) |-> Trim(lines[k])]

\* filter dropped: blank lines are kept
FilterKeepAll(lines) == lines

\* Array.prototype.filter(s => s.length > 0)
FilterNonEmpty(lines) == SelectSeq(lines, LAMBDA l : Length(l) > 0)

\* ---------------------------------------------------------- payload builder
BlockedKeywords(rs) ==
    IF rs.blockedKeywords # None /\ Length(rs.blockedKeywords[1]) > 0
    THEN FilterNonEmpty(MapTrim(Split(rs.blockedKeywords[1])))
    ELSE <<>>

\* enabled taken as set only when explicitly true
RuleEnabledStrict(rs) == rs.enabled = Some(TRUE)

RuleEnabled(rs) == rs.enabled # Some(FALSE)

DisabledCategories(rs) == OrObj(rs.disabledCategories, Some(<<>>))[1]

RuleSettingsPayload(rs) ==
    [enabled |-> RuleEnabled(rs),
     disabled_categories |-> DisabledCategories(rs),
     blocked_keywords |-> BlockedKeywords(rs)]

\* the trimmed prompt sent instead of the prompt as read
PayloadPromptTrimmed(p) == Trim(p.prompt)

PayloadPrompt(p) == p.prompt

Payload(p) ==
    IF p.ruleSettings # None
    THEN [prompt |-> PayloadPrompt(p), detection_method |-> p.detectionMethod,
          rule_settings |-> RuleSettingsPayload(p.ruleSettings[1])]
    ELSE [prompt |-> PayloadPrompt(p), detection_method |-> p.detectionMethod]

Request(p) == [method |-> "POST", path |-> "/v1/detect", body |-> Payload(p), json |-> TRUE]

\* ------------------------------------------------------------- validation
PromptEmpty(prompt) == Length(prompt) = 0 \/ Length(Trim(prompt)) = 0

\* off-by-one limit: >= instead of >
PromptTooLongInclusive(prompt) == Length(prompt) >= MaxPromptLength

PromptTooLong(prompt) == Length(prompt) > MaxPromptLength

EmptyError(k) ==
    [message |-> "Prompt cannot be empty", response |-> None,
     statusCode |-> None, itemIndex |-> Some(k)]

TooLongError(prompt, k) ==
    [message |-> "Prompt is too long (" \o ToString(Length(prompt))
                 \o " characters). Maximum allowed is 10,000 characters.",
     response |-> None, statusCode |-> None, itemIndex |-> Some(k)]

\* ------------------------------------------------------- error classification
NumStr(o) == IF o = None THEN "undefined" ELSE ToString(o[1])

BodyField(b, f) == IF b = None THEN None ELSE b[1][f]

\* the switch with the `case 502:` label missing
ErrorMessageForNo502(statusCode) ==
    CASE statusCode = Some(401) -> "Authentication failed"
      [] statusCode = Some(403) -> "Access forbidden"
      [] statusCode = Some(429) -> "Rate limit exceeded"
      [] statusCode = Some(400) -> "Invalid request"
      [] statusCode \in {Some(500), Some(503)} -> "Antijection API error"
      [] OTHER -> "HTTP " \o NumStr(statusCode) \o " error"

\* the errorMessage assigned by the switch on statusCode
ErrorMessageFor(statusCode) ==
    CASE statusCode = Some(401) -> "Authentication failed"
      [] statusCode = Some(403) -> "Access forbidden"
      [] statusCode = Some(429) -> "Rate limit exceeded"
      [] statusCode = Some(400) -> "Invalid request"
      [] statusCode \in {Some(500), Some(502), Some(503)} -> "Antijection API error"
      [] OTHER -> "HTTP " \o NumStr(statusCode) \o " error"

\* the errorDetails assigned by the switch on statusCode
ErrorDetailsFor(statusCode, responseBody, message) ==
    LET fromBody == OrStr(BodyField(responseBody, "detail"), BodyField(responseBody, "error"))
    IN  CASE statusCode = Some(401) ->
              "Invalid API key. Please check your Antijection API credentials."
          [] statusCode = Some(403) ->
              "Your API key does not have permission to access this resource."
          [] statusCode = Some(429) ->
              "You have exceeded your API rate limit or credit quota. Please upgrade your plan or wait before retrying."
          [] statusCode = Some(400) ->
              OrStr(fromBody, Some("The request was malformed. Check your input parameters."))[1]
          [] statusCode \in {Some(500), Some(502), Some(503)} ->
              "The Antijection service is temporarily unavailable. Please try again later."
          [] OTHER -> OrStr(fromBody, Some(message))[1]

Classify(e) ==
    IF e.response = None
    THEN [errorMessage |-> e.message, errorDetails |-> ""]
    ELSE LET statusCode == OrNum(e.response[1].status, e.statusCode)
             responseBody == OrObj(e.response[1].body, e.response[1].data)
         IN  [errorMessage |-> ErrorMessageFor(statusCode),
              errorDetails |-> ErrorDetailsFor(statusCode, responseBody, e.message)]

RecordStatus(e) ==
    OrNum(IF e.response = None THEN None ELSE e.response[1].status, e.statusCode)

ErrorRecord(e, c) ==
    [error |-> c.errorMessage, details |-> c.errorDetails, statusCode |-> RecordStatus(e)]

\* the details joined without testing that they are non-empty
FullErrorAlwaysJoined(c) == c.errorMessage \o ": " \o c.errorDetails

FullError(c) ==
    IF c.errorDetails # "" THEN c.errorMessage \o ": " \o c.errorDetails ELSE c.errorMessage

\* ------------------------------------------------------------ output items
PairedItem(k) == [item |-> k]

SuccessItem(response, k) == [json |-> response, pairedItem |-> PairedItem(k)]

ErrorItem(e, c, k) == [json |-> ErrorRecord(e, c), pairedItem |-> PairedItem(k)]

\* the list rebuilt from the new item alone
PushFresh(list, item) == <<item>>

Push(list, item) == Append(list, item)

\* the continue-on-failure flag ignored: every error is recorded
ContinueOnFailAlways == TRUE

ContinueOnFail == cont

\* the index not advanced: the same item is processed again
NextIndexStuck(k) == k

NextIndex(k) == k + 1

\* ---------------------------------------------------------------- universes
SeqsUpTo(S, m) == UNION {[1..k -> S] : k \in 0..m}

Methods == {"INJECTION_GUARD", "INJECTION_GUARD_MULTI", "SAFETY_GUARD"}

Responses == {[risk_score |-> 10], [risk_score |-> 90]}

NoRules == [enabled |-> None, disabledCategories |-> None, blockedKeywords |-> None]

ExampleKeywords == <<Run("a", 1), Run("\n", 1), Run("\n", 1), Run("b", 1), Run(" ", 1), Run("\n", 1)>>

FullRules ==
    [enabled |-> Some(FALSE), disabledCategories |-> Some(<<"sql_injection", "emojis">>),
     blockedKeywords |-> Some(ExampleKeywords)]

CorePrompts ==
    { <<>>,
      <<Run(" ", 1)>>,
      <<Run("a", 1)>>,
      <<Run(" ", 1), Run("a", 9999)>>,
      <<Run("a", 10000), Run("a", 1)>> }

CoreParams ==
    [prompt : CorePrompts, detectionMethod : {"INJECTION_GUARD", "SAFETY_GUARD"},
     ruleSettings : {None, Some(FullRules)}]

NoBody == [detail |-> None, error |-> None]

HttpError(m, r, s) == [message |-> m, response |-> r, statusCode |-> s, itemIndex |-> None]

Resp(s, b, d) == Some([status |-> s, body |-> b, data |-> d])

CoreErrors ==
    { HttpError("connect ECONNREFUSED", None, None),
      HttpError("Request failed with status code 401", None, Some(401)),
      HttpError("Request failed with status code 401", Resp(Some(401), None, None), None),
      HttpError("Request failed with status code 404", Resp(Some(404), None, Some([detail |-> Some("Not Found"), error |-> None])), None),
      HttpError("", Resp(Some(404), None, None), None),
      HttpError("Request failed with status code 503", Resp(None, None, None), Some(503)) }

\* what getNodeParameter throws when a parameter cannot be resolved
ParamFailure == [threw |-> "getNodeParameter"]

ParamError ==
    [message |-> "Could not get parameter", response |-> None,
     statusCode |-> None, itemIndex |-> None]

\* -------------------------------------------------------------------- state
Init ==
    /\ pc = "start"
    /\ i = 0
    /\ n \in 0..MaxItems
    /\ cont \in BOOLEAN
    /\ returnData = <<>>
    /\ inflight = None
    /\ params = None
    /\ caught = None
    /\ classified = None
    /\ thrown = None
    /\ result = None
    /\ reqLog = <<>>
    /\ outcome = <<>>
    /\ reads = {}

\* await this.getCredentials('antijectionApi'), outside the try block
GetCredentials ==
    /\ pc = "start"
    /\ \E ok \in BOOLEAN : pc' = IF ok THEN "loop" ELSE "rejected"
    /\ UNCHANGED <<i, n, cont, returnData, inflight, params, caught, classified,
                   thrown, result, reqLog, outcome, reads>>

\* the catch block, for the error e caught while processing item i
Catch(e) ==
    LET c == Classify(e) IN
    /\ caught' = Some(e)
    /\ classified' = Some(c)
    /\ IF ContinueOnFail
       THEN /\ returnData' = Push(returnData, ErrorItem(e, c, i))
            /\ i' = NextIndex(i)
            /\ pc' = "loop"
            /\ UNCHANGED thrown
       ELSE /\ thrown' = Some([message |-> FullError(c), itemIndex |-> i])
            /\ pc' = "thrown"
            /\ UNCHANGED <<returnData, i>>

\* the try block of iteration i up to the await of httpRequest
ItemStart(U) ==
    /\ pc = "loop"
    /\ i < n
    /\ reads' = reads \cup {i}
    /\ \E x \in U \cup {ParamFailure} :
         IF x = ParamFailure
         THEN /\ params' = None
              /\ Catch(ParamError)
              /\ outcome' = Append(outcome, "param")
              /\ UNCHANGED <<inflight, reqLog>>
         ELSE /\ params' = Some(x)
              /\ IF PromptEmpty(x.prompt)
                 THEN /\ Catch(EmptyError(i))
                      /\ outcome' = Append(outcome, "validation")
                      /\ UNCHANGED <<inflight, reqLog>>
                 ELSE IF PromptTooLong(x.prompt)
                 THEN /\ Catch(TooLongError(x.prompt, i))
                      /\ outcome' = Append(outcome, "validation")
                      /\ UNCHANGED <<inflight, reqLog>>
                 ELSE /\ inflight' = Some(Request(x))
                      /\ reqLog' = Append(reqLog, [item |-> i, state |-> "pending", response |-> None])
                      /\ pc' = "await"
                      /\ UNCHANGED <<i, returnData, caught, classified, thrown, outcome>>
    /\ UNCHANGED <<n, cont, result>>

\* httpRequest resolves: push the response, paired with item i
HttpReturn ==
    /\ pc = "await"
    /\ \E r \in Responses :
         /\ returnData' = Push(returnData, SuccessItem(r, i))
         /\ reqLog' = [reqLog EXCEPT ![Len(reqLog)] = [item |-> i, state |-> "returned", response |-> Some(r)]]
    /\ i' = NextIndex(i)
    /\ pc' = "loop"
    /\ inflight' = None
    /\ outcome' = Append(outcome, "ok")
    /\ UNCHANGED <<n, cont, params, caught, classified, thrown, result, reads>>

\* httpRequest rejects with an error of the set E
HttpFail(E) ==
    /\ pc = "await"
    /\ \E e \in E : Catch(e)
    /\ reqLog' = [reqLog EXCEPT ![Len(reqLog)].state = "failed"]
    /\ inflight' = None
    /\ outcome' = Append(outcome, "http")
    /\ UNCHANGED <<n, cont, params, result, reads>>

\* the loop condition fails: return [returnData]
Return ==
    /\ pc = "loop"
    /\ ~(i < n)
    /\ result' = Some(<<returnData>>)
    /\ pc' = "returned"
    /\ UNCHANGED <<i, n, cont, returnData, inflight, params, caught, classified,
                   thrown, reqLog, outcome, reads>>

Next ==
    \/ GetCredentials
    \/ ItemStart(CoreParams)
    \/ HttpReturn
    \/ HttpFail(CoreErrors)
    \/ Return

Spec == Init /\ [][Next]_vars

\* ------------------------------------------- single-item runs, wide inputs
InitOne == Init /\ n = 1

PromptChars == {" ", "a"}

RunLens == {1, MaxPromptLength - 1, MaxPromptLength}

WidePrompts == SeqsUpTo([ch : PromptChars, n : RunLens], MaxRuns)

WideParams ==
    [prompt : WidePrompts, detectionMethod : Methods, ruleSettings : {None, Some(NoRules)}]

NextParams ==
    \/ GetCredentials
    \/ ItemStart(WideParams)
    \/ HttpReturn
    \/ HttpFail(CoreErrors)
    \/ Return

SpecParams == InitOne /\ [][NextParams]_vars

WideRules ==
    [enabled : {None, Some(TRUE), Some(FALSE)},
     disabledCategories : {None, Some(<<>>), Some(<<"sql_injection">>), Some(<<"sql_injection", "emojis">>)},
     blockedKeywords : {None, Some(<<>>), Some(<<Run(" ", 1)>>), Some(ExampleKeywords)}]

RulesParams ==
    [prompt : {<<>>, <<Run("a", 1)>>}, detectionMethod : {"INJECTION_GUARD_MULTI"},
     ruleSettings : {None} \cup {Some(rs) : rs \in WideRules}]

NextRules ==
    \/ GetCredentials
    \/ ItemStart(RulesParams)
    \/ HttpReturn
    \/ HttpFail(CoreErrors)
    \/ Return

SpecRules == InitOne /\ [][NextRules]_vars

KwChars == {"a", "b", " ", "\n"}

KwStrings == SeqsUpTo([ch : KwChars, n : {1}], MaxKwLen) \cup {ExampleKeywords}

KeywordParams ==
    [prompt : {<<>>, <<Run("a", 1)>>}, detectionMethod : {"INJECTION_GUARD_MULTI"},
     ruleSettings : {Some([NoRules EXCEPT !.blockedKeywords = kw]) :
                        kw \in {None} \cup {Some(s) : s \in KwStrings}}]

NextKeywords ==
    \/ GetCredentials
    \/ ItemStart(KeywordParams)
    \/ HttpReturn
    \/ HttpFail(CoreErrors)
    \/ Return

SpecKeywords == InitOne /\ [][NextKeywords]_vars

StatusCodes == {400, 401, 403, 404, 429, 500, 502, 503, 504}

Bodies ==
    {None, Some(NoBody),
     Some([detail |-> Some("quota"), error |-> None]),
     Some([detail |-> None, error |-> Some("bad")]),
     Some([detail |-> Some(""), error |-> Some("bad")])}

WideErrors ==
    {HttpError(m, r, s) :
        m \in {"socket hang up", ""},
        r \in {None} \cup {Resp(st, b, d) :
                              st \in {None} \cup {Some(c) : c \in StatusCodes},
                              b \in Bodies, d \in Bodies},
        s \in {None, Some(401), Some(404)}}

ErrorsParams ==
    [prompt : {<<>>, <<Run("a", 1)>>}, detectionMethod : {"INJECTION_GUARD_MULTI"},
     ruleSettings : {None}]

NextErrors ==
    \/ GetCredentials
    \/ ItemStart(ErrorsParams)
    \/ HttpReturn
    \/ HttpFail(WideErrors)
    \/ Return

SpecErrors == InitOne /\ [][NextErrors]_vars

\* ------------------------------------------------------------------ claims
IsErrorRecord(j) == DOMAIN j = {"error", "details", "statusCode"}

Range(f) == {f[k] : k \in DOMAIN f}

\* the item whose parameters were read last
LastItem == CHOOSE r \in reads : \A q \in reads : q <= r

\* a request was issued for item k
Requested(k) == \E j \in 1..Len(reqLog) : reqLog[j].item = k

C1_State ==
    cont =>
      /\ pc # "thrown"
      /\ Len(returnData) = Len(outcome)
      /\ Len(returnData) <= n
      /\ \A k \in 1..Len(returnData) :
           /\ returnData[k].pairedItem.item = k - 1
           /\ IF outcome[k] = "ok"
              THEN \E j \in 1..Len(reqLog) :
                     /\ reqLog[j].item = k - 1
                     /\ reqLog[j].response = Some(returnData[k].json)
              ELSE IsErrorRecord(returnData[k].json)
      /\ pc = "returned" => (result = Some(<<returnData>>) /\ Len(returnData) = n)

C1_Step ==
    cont => /\ Len(returnData') >= Len(returnData)
            /\ SubSeq(returnData', 1, Len(returnData)) = returnData

\* C1: with continue-on-failure active, execute over N items returns exactly
\* N outputs; output k is paired with item k, holds an ErrorRecord if item k
\* failed and the response of item k's own request if it succeeded, and no
\* step changes an output already accumulated.
C1_ContinueKeepsEveryItem == []C1_State /\ [][C1_Step]_vars

C1_Witness ==
    /\ cont
    /\ pc = "returned"
    /\ n = 3
    /\ outcome = <<"ok", "http", "validation">>
    /\ Len(result[1][1]) = 3

\* C2: without continue-on-failure the first failing item i ends the run
\* with an operation error carrying i, no output list is returned, and no
\* parameter is read and no request issued for an item after i.
C2_FirstFailureAborts ==
    ~cont =>
      /\ \A k \in 1..Len(outcome) :
           outcome[k] # "ok" =>
             /\ k = Len(outcome)
             /\ pc = "thrown"
             /\ thrown # None
             /\ thrown[1].itemIndex = k - 1
             /\ result = None
             /\ \A r \in reads : r <= k - 1
             /\ \A j \in 1..Len(reqLog) : reqLog[j].item <= k - 1
      /\ pc = "returned" => \A k \in 1..Len(outcome) : outcome[k] = "ok"

C2_Witness ==
    /\ ~cont
    /\ pc = "thrown"
    /\ n = 3
    /\ outcome = <<"ok", "http">>
    /\ thrown[1].itemIndex = 1
    /\ reads = {0, 1}

\* the status the remote answered with, as the caught error carries it
RemoteStatus(e) ==
    IF e.response[1].status # None THEN e.response[1].status ELSE e.statusCode

\* C3: the error message of a failed call follows the taxonomy of the
\* remote status; an error with no HTTP response keeps its raw message.
C3_MessageFollowsTaxonomy ==
    (caught # None /\ outcome # <<>> /\ outcome[Len(outcome)] = "http") =>
      LET e == caught[1]
          m == classified[1].errorMessage
      IN  IF e.response = None
          THEN m = e.message
          ELSE LET st == RemoteStatus(e) IN
               /\ st = Some(401) => m = "Authentication failed"
               /\ st = Some(403) => m = "Access forbidden"
               /\ st = Some(429) => m = "Rate limit exceeded"
               /\ st = Some(400) => m = "Invalid request"
               /\ st = Some(500) => m = "Antijection API error"
               /\ st = Some(502) => m = "Antijection API error"
               /\ st = Some(503) => m = "Antijection API error"
               /\ st = Some(404) => m = "HTTP 404 error"
               /\ st = Some(504) => m = "HTTP 504 error"
               /\ (cont /\ pc # "await") => returnData[Len(returnData)].json.error = m

C3_Witness ==
    /\ caught # None
    /\ outcome = <<"http">>
    /\ caught[1].response # None
    /\ caught[1].response[1].status = Some(502)
    /\ caught[1].statusCode = Some(404)
    /\ classified[1].errorMessage = "Antijection API error"

\* every code unit of p is whitespace (the empty prompt included)
Blank(p) == \A k \in 1..Len(p) : p[k].ch \in WhiteSpace

\* item k was rejected by validation: the error carries k, no request issued
Rejected(k) ==
    /\ Len(outcome) >= k + 1
    /\ outcome[k + 1] = "validation"
    /\ caught # None
    /\ caught[1].itemIndex = Some(k)
    /\ caught[1].response = None
    /\ ~Requested(k)
    /\ inflight = None

\* C4: an item is rejected by validation, with its index and without a
\* request, exactly when its prompt is empty, whitespace-only or longer
\* than 10,000; 10,000 non-blank is accepted; the too-long message echoes
\* the exact length.
C4_ValidationExact ==
    params # None =>
      LET p == params[1].prompt
          k == LastItem
          bad == Blank(p) \/ Length(p) > 10000
      IN  /\ bad <=> Rejected(k)
          /\ ~bad <=> Requested(k)
          /\ (Length(p) = 10000 /\ ~Blank(p)) => Requested(k)
          /\ Blank(p) => caught[1].message = "Prompt cannot be empty"
          /\ (~Blank(p) /\ Length(p) = 10001) =>
               caught[1].message = "Prompt is too long (10001 characters). Maximum allowed is 10,000 characters."

C4_Witness ==
    /\ params # None
    /\ Length(params[1].prompt) = 10001
    /\ LastItem = 2
    /\ Rejected(2)
    /\ caught[1].message = "Prompt is too long (10001 characters). Maximum allowed is 10,000 characters."

\* C5: requests are issued one at a time, in strictly increasing item order,
\* at most one per item; a request is pending only while execute awaits it.
C5_OneRequestAtATime ==
    /\ \A a, b \in 1..Len(reqLog) : a < b => reqLog[a].item < reqLog[b].item
    /\ \A a \in 1..Len(reqLog) :
         reqLog[a].state = "pending" =>
           (a = Len(reqLog) /\ pc = "await" /\ reqLog[a].item = i)
    /\ (inflight # None) <=> (pc = "await")
    /\ pc = "await" => (reqLog # <<>> /\ reqLog[Len(reqLog)].state = "pending")

C5_Witness ==
    /\ Len(reqLog) = 3
    /\ reqLog[1].state = "failed"
    /\ reqLog[2].state = "returned"
    /\ reqLog[3].state = "pending"

\* C6: the body sent for a validated prompt carries the prompt as read,
\* leading and trailing whitespace included, and the selected method.
C6_PromptAndMethodUnchanged ==
    pc = "await" =>
      /\ inflight[1].body.prompt = params[1].prompt
      /\ inflight[1].body.detection_method = params[1].detectionMethod

C6_Witness ==
    /\ pc = "await"
    /\ params[1].prompt = <<Run(" ", 1), Run("a", 1)>>
    /\ inflight[1].body.prompt = <<Run(" ", 1), Run("a", 1)>>
    /\ inflight[1].body.detection_method = "SAFETY_GUARD"

\* C7: when the rule-settings collection is present the body has
\* rule_settings, with enabled false only for an explicit false and
\* disabled_categories the input list, or empty when omitted.
C7_RuleSettingsDefaults ==
    (pc = "await" /\ params[1].ruleSettings # None) =>
      LET rs == params[1].ruleSettings[1]
          body == inflight[1].body
      IN  /\ "rule_settings" \in DOMAIN body
          /\ rs.enabled = Some(FALSE) => body.rule_settings.enabled = FALSE
          /\ rs.enabled \in {None, Some(TRUE)} => body.rule_settings.enabled = TRUE
          /\ rs.disabledCategories = None => body.rule_settings.disabled_categories = <<>>
          /\ rs.disabledCategories # None =>
               body.rule_settings.disabled_categories = rs.disabledCategories[1]

C7_Witness ==
    /\ pc = "await"
    /\ params[1].ruleSettings = Some(NoRules)
    /\ inflight[1].body.rule_settings =
         [enabled |-> TRUE, disabled_categories |-> <<>>, blocked_keywords |-> <<>>]

Min(S) == CHOOSE a \in S : \A b \in S : a <= b

Max(S) == CHOOSE a \in S : \A b \in S : b <= a

\* the trimmed non-blank lines of a text of single code units, by position
LinesByPosition(s) ==
    LET brk == {0, Len(s) + 1} \cup {k \in 1..Len(s) : s[k].ch = "\n"}
        starts == brk \ {Len(s) + 1}
        lineEnd(a) == Min({b \in brk : b > a})
        inner(a) == {k \in (a + 1)..(lineEnd(a) - 1) : s[k].ch \notin WhiteSpace}
        keep == {a \in starts : inner(a) # {}}
        nth(k) == CHOOSE a \in keep : Cardinality({b \in keep : b < a}) = k - 1
    IN  [k \in 1..Cardinality(keep) |-> SubSeq(s, Min(inner(nth(k))), Max(inner(nth(k))))]

\* C8: blocked_keywords is the lines of blockedKeywords in order, trimmed,
\* blank lines dropped; omitted or empty gives the empty list; no entry is
\* empty or starts or ends with whitespace.
C8_BlockedKeywords ==
    (pc = "await" /\ params[1].ruleSettings # None) =>
      LET in == params[1].ruleSettings[1].blockedKeywords
          out == inflight[1].body.rule_settings.blocked_keywords
      IN  /\ in \in {None, Some(<<>>)} => out = <<>>
          /\ in # None => out = LinesByPosition(in[1])
          /\ \A k \in 1..Len(out) :
               /\ out[k] # <<>>
               /\ out[k][1].ch \notin WhiteSpace
               /\ out[k][Len(out[k])].ch \notin WhiteSpace

C8_Witness ==
    /\ pc = "await"
    /\ params[1].ruleSettings # None
    /\ params[1].ruleSettings[1].blockedKeywords = Some(ExampleKeywords)
    /\ inflight[1].body.rule_settings.blocked_keywords = << <<Run("a", 1)>>, <<Run("b", 1)>> >>

\* C9: without continue-on-failure the propagated error carries
\* '<errorMessage>: <errorDetails>' when the details are non-empty and the
\* message alone when they are empty, with the failing item's index.
C9_CombinedMessage ==
    (~cont /\ pc = "thrown") =>
      LET c == classified[1]
          t == thrown[1]
      IN  /\ t.itemIndex = Len(outcome) - 1
          /\ c.errorDetails # "" => t.message = c.errorMessage \o ": " \o c.errorDetails
          /\ c.errorDetails = "" => t.message = c.errorMessage
          /\ caught[1].response = None => t.message = caught[1].message

C9_Witness ==
    /\ ~cont
    /\ pc = "thrown"
    /\ thrown[1] = [message |-> "HTTP 404 error: Not Found", itemIndex |-> 2]

\* C10: in every ErrorRecord the statusCode and the error agree with the
\* taxonomy: a classified status has the taxonomy's message, and a record
\* holding the raw message of an error with no response has no statusCode.
C10_RecordAgrees ==
    \A k \in 1..Len(returnData) :
      LET r == returnData[k].json IN
      IsErrorRecord(r) =>
        /\ r.statusCode = Some(401) => r.error = "Authentication failed"
        /\ r.statusCode = Some(403) => r.error = "Access forbidden"
        /\ r.statusCode = Some(429) => r.error = "Rate limit exceeded"
        /\ r.statusCode = Some(400) => r.error = "Invalid request"
        /\ r.statusCode \in {Some(500), Some(502), Some(503)} => r.error = "Antijection API error"
        /\ (k = Len(returnData) /\ pc = "loop" /\ caught # None
              /\ caught[1].response = None /\ r.error = caught[1].message)
             => r.statusCode = None

====
